---- MODULE Spec2Model ----
(***************************************************************************)
(* A model of python_scripts/jets_training/models/JetPointNet.py.          *)
(*                                                                         *)
(* Numbers.  Labels, predictions, features and weights are integers (a     *)
(* label of 1 is the float 1.0, the sentinel is -1.0).  A division is kept *)
(* as a quotient: a loss term is the record                                *)
(*   [num, unit, range, rangepow, count, batch, scale]                     *)
(* standing for  scale * (num / unit) / (range^rangepow * count * batch),  *)
(* so a zero divisor (the float NaN of 0/0) is visible as count = 0.       *)
(* Logarithms are tabulated in thousandths (unit = 1000), the Huber term   *)
(* in halves (unit = 2), the sigmoid in thousandths.                       *)
(***************************************************************************)
EXTENDS Integers, Sequences, FiniteSets

VARIABLES
    y_true,        \* label tensor (batch, points, 1), as rows of points
    y_pred,        \* prediction tensor, same shape
    out,           \* the value returned by the last loss / metric call
    input_points,  \* one event: num_points rows of num_features values
    weights,       \* the trained parameters of the network (a seed)
    num_classes,   \* the channels of the segmentation output
    net,           \* the tensors of the last forward pass
    kernel,        \* the weights handed to the regularizer, row-major
    reg_loss,      \* the value returned by the last regularizer call
    epoch,         \* the epoch that training is in
    saved,         \* the file names the model has been saved under
    raised         \* the exception that ended training, if any

lossVars == <<y_true, y_pred, out>>
netVars == <<input_points, weights, num_classes, net>>
trainVars == <<kernel, reg_loss, epoch, saved, raised>>
vars == <<lossVars, netVars, trainVars>>

(***************************************************************************)
(* Bounds of the model.                                                    *)
(***************************************************************************)
MaxBatch == 2
MaxPoints == 2
MaxCells == 4
MaxLabel == 1
MaxPred == 1

(***************************************************************************)
(* Program constants.                                                      *)
(***************************************************************************)
SentinelLabel == -1
RangeFloorInv == 100000
AccuracyCap == 1000
AccuracyPercent == 100
DefaultBceWeight == 100
MaeScale == 1000
HuberDelta == 1

Labels == {SentinelLabel} \cup (0..MaxLabel)
Preds == 0..MaxPred
BceWeights == {0, DefaultBceWeight}

(***************************************************************************)
(* Tensor helpers (tf.* primitives).                                       *)
(***************************************************************************)
RECURSIVE reduce_sum(_)
reduce_sum(s) == IF s = <<>> THEN 0 ELSE Head(s) + reduce_sum(Tail(s))

RECURSIVE Flatten(_)
Flatten(t) == IF t = <<>> THEN <<>> ELSE Head(t) \o Flatten(Tail(t))

\* tf.shape(y_true)[0]
BatchSize(t) == Len(t)

\* a * b, elementwise
Multiply(a, b) ==
    [i \in 1..Len(a) |-> [j \in 1..Len(a[i]) |-> a[i][j] * b[i][j]]]

RECURSIVE boolean_mask(_, _)
boolean_mask(s, m) ==
    IF s = <<>> THEN <<>>
    ELSE (IF Head(m) # 0 THEN <<Head(s)>> ELSE <<>>)
         \o boolean_mask(Tail(s), Tail(m))

RECURSIVE reduce_max(_)
reduce_max(s) ==
    IF Len(s) = 1 THEN s[1]
    ELSE LET r == reduce_max(Tail(s)) IN IF s[1] > r THEN s[1] ELSE r

RECURSIVE reduce_min(_)
reduce_min(s) ==
    IF Len(s) = 1 THEN s[1]
    ELSE LET r == reduce_min(Tail(s)) IN IF s[1] < r THEN s[1] ELSE r

\* tf.cast(tf.not_equal(y_true, -1.0), tf.float32), squeezed
NotSentinelMask(yt) ==
    [i \in 1..Len(yt) |->
        [j \in 1..Len(yt[i]) |-> IF yt[i][j] # SentinelLabel THEN 1 ELSE 0]]

\* The mask left out: the base loss is returned as it is.
ApplyMaskDropped(loss, mask) == loss

\* base_loss * mask
ApplyMask(loss, mask) == Multiply(loss, mask)

\* The size of the padded tensor in place of the count of valid values.
CountAllPoints(mask) == Len(Flatten(mask))

\* tf.reduce_sum(mask): the count of valid values
ValidCount(mask) == reduce_sum(Flatten(mask))

\* tf.maximum(reduce_max(v) - reduce_min(v), 1e-5) as the rational n/d.
\* On an empty v, reduce_max is -inf and reduce_min +inf, the difference is
\* -inf and the maximum is the floor.
DynamicRange(v) ==
    IF v = <<>> THEN [n |-> 1, d |-> RangeFloorInv]
    ELSE LET r == reduce_max(v) - reduce_min(v)
         IN  IF r * RangeFloorInv >= 1 THEN [n |-> r, d |-> 1]
             ELSE [n |-> 1, d |-> RangeFloorInv]

(***************************************************************************)
(* Per-point base losses (Keras), the last axis having size 1.             *)
(***************************************************************************)
SquaredError(t, p) == (t - p) * (t - p)

Abs(x) == IF x < 0 THEN -x ELSE x

AbsoluteError(t, p) == Abs(t - p)

\* Huber(delta), in halves: 0.5*d^2 if |d| <= delta, else
\* delta*|d| - 0.5*delta^2
HuberError(t, p) ==
    LET d == Abs(t - p)
    IN  IF d <= HuberDelta THEN d * d
        ELSE 2 * HuberDelta * d - HuberDelta * HuberDelta

\* log(clip(p, 1e-7, 1 - 1e-7) + 1e-7) in thousandths, p an integer
LogP(p) == IF p <= 0 THEN -15425 ELSE 0

\* log(1 - clip(p, 1e-7, 1 - 1e-7) + 1e-7) in thousandths, p an integer
Log1mP(p) == IF p >= 1 THEN -15425 ELSE 0

\* keras binary_crossentropy(t, p), in thousandths
BinaryCrossentropy(t, p) == -(t * LogP(p) + (1 - t) * Log1mP(p))

\* binary_crossentropy(0, clip_by_value(p, 0.001, 0.999)), in thousandths:
\* -log(1 - 0.001 + 1e-7) and -log(1 - 0.999 + 1e-7)
ClippedZeroBce(p) == IF p <= 0 THEN 1 ELSE 6908

mean_squared_error(yt, yp) ==
    [i \in 1..Len(yt) |->
        [j \in 1..Len(yt[i]) |-> SquaredError(yt[i][j], yp[i][j])]]

mean_absolute_error(yt, yp) ==
    [i \in 1..Len(yt) |->
        [j \in 1..Len(yt[i]) |-> AbsoluteError(yt[i][j], yp[i][j])]]

huber_loss_fn(yt, yp) ==
    [i \in 1..Len(yt) |->
        [j \in 1..Len(yt[i]) |-> HuberError(yt[i][j], yp[i][j])]]

binary_crossentropy(yt, yp) ==
    [i \in 1..Len(yt) |->
        [j \in 1..Len(yt[i]) |-> BinaryCrossentropy(yt[i][j], yp[i][j])]]

\* binary_crossentropy(tf.zeros_like(y_pred), y_preds_clipped)
clipped_zero_crossentropy(yp) ==
    [i \in 1..Len(yp) |->
        [j \in 1..Len(yp[i]) |-> ClippedZeroBce(yp[i][j])]]

Term(num, unit, range, rangepow, count, batch, scale) ==
    [num |-> num, unit |-> unit, range |-> range, rangepow |-> rangepow,
     count |-> count, batch |-> batch, scale |-> scale]

NoRange == [n |-> 1, d |-> 1]

(***************************************************************************)
(* The losses and the metric.                                              *)
(***************************************************************************)
masked_mse_loss(yt, yp) ==
    LET valid_mask == NotSentinelMask(yt)
        y_true_valid == boolean_mask(Flatten(yt), Flatten(valid_mask))
        dynamic_range == DynamicRange(y_true_valid)
        mse_loss == ApplyMask(mean_squared_error(yt, yp), valid_mask)
    IN  [fn |-> "masked_mse_loss", mask |-> valid_mask,
         masked |-> <<mse_loss>>,
         terms |-> <<Term(reduce_sum(Flatten(mse_loss)), 1, dynamic_range, 2,
                          ValidCount(valid_mask), 1, 1)>>]

masked_mae_loss(yt, yp) ==
    LET mask == NotSentinelMask(yt)
        masked_loss == ApplyMask(mean_absolute_error(yt, yp), mask)
        y_true_valid == boolean_mask(Flatten(yt), Flatten(mask))
        dynamic_range == DynamicRange(y_true_valid)
        num_valid_values == ValidCount(mask)
    IN  [fn |-> "masked_mae_loss", mask |-> mask, masked |-> <<masked_loss>>,
         terms |-> <<Term(reduce_sum(Flatten(masked_loss)), 1, dynamic_range,
                          1, num_valid_values, 1, MaeScale)>>]

masked_huber_loss(yt, yp) ==
    LET mask == NotSentinelMask(yt)
        masked_loss == ApplyMask(huber_loss_fn(yt, yp), mask)
        batch_size == BatchSize(yt)
    IN  [fn |-> "masked_huber_loss", mask |-> mask,
         masked |-> <<masked_loss>>,
         terms |-> <<Term(reduce_sum(Flatten(masked_loss)), 2, NoRange, 0,
                          ValidCount(mask), batch_size, 1)>>]

masked_bce_loss(yt, yp) ==
    LET mask == NotSentinelMask(yt)
        masked_loss == ApplyMask(binary_crossentropy(yt, yp), mask)
        batch_size == BatchSize(yt)
    IN  [fn |-> "masked_bce_loss", mask |-> mask, masked |-> <<masked_loss>>,
         terms |-> <<Term(reduce_sum(Flatten(masked_loss)), 1000, NoRange,
                          0, ValidCount(mask), batch_size, 1)>>]

\* The zero mask taken with >= in place of equality.
IsZeroMaskNonNegative(yt) ==
    [i \in 1..Len(yt) |->
        [j \in 1..Len(yt[i]) |-> IF yt[i][j] >= 0 THEN 1 ELSE 0]]

\* tf.cast(tf.equal(y_true, 0.0), tf.float32), squeezed
IsZeroMask(yt) ==
    [i \in 1..Len(yt) |->
        [j \in 1..Len(yt[i]) |-> IF yt[i][j] = 0 THEN 1 ELSE 0]]

masked_mse_bce_loss(yt, yp, bce_weight) ==
    LET valid_mask == NotSentinelMask(yt)
        y_true_valid == boolean_mask(Flatten(yt), Flatten(valid_mask))
        dynamic_range == DynamicRange(y_true_valid)
        mse_loss == ApplyMask(mean_squared_error(yt, yp), valid_mask)
        y_true_is_zero_mask == IsZeroMask(yt)
        bce_loss == ApplyMask(ApplyMask(clipped_zero_crossentropy(yp),
                                        y_true_is_zero_mask), valid_mask)
    IN  [fn |-> "masked_mse_bce_loss", mask |-> valid_mask,
         masked |-> <<mse_loss, bce_loss>>, bce_weight |-> bce_weight,
         terms |-> <<Term(reduce_sum(Flatten(mse_loss)), 1, dynamic_range, 2,
                          ValidCount(valid_mask), 1, 1),
                     Term(bce_weight * reduce_sum(Flatten(bce_loss)), 1000,
                          NoRange, 0, ValidCount(valid_mask), 1, 1)>>]

\* The ratio returned without tf.minimum.
CapAccuracyMissing(num, s_true) ==
    [capped |-> FALSE, num |-> num, s_true |-> s_true, eps |-> TRUE]

\* tf.minimum(ratio, 1000.0) of the quotient num/den, den = S_true + 1e-8.
\* S_true is an integer, so den has the sign of S_true when S_true # 0 and
\* is 1e-8 when S_true = 0; 1000 * 1e-8 is below one unit.
CapAccuracy(num, s_true) ==
    LET above == IF s_true >= 0 THEN num > AccuracyCap * s_true
                 ELSE num <= AccuracyCap * s_true
    IN  IF above THEN [capped |-> TRUE, num |-> AccuracyCap, s_true |-> 1,
                       eps |-> FALSE]
        ELSE [capped |-> FALSE, num |-> num, s_true |-> s_true, eps |-> TRUE]

custom_accuracy_metric(yt, yp) ==
    LET mask == NotSentinelMask(yt)
        y_pred_masked == boolean_mask(Flatten(yp), Flatten(mask))
        y_true_masked == boolean_mask(Flatten(yt), Flatten(mask))
        sum_pred_masked == reduce_sum(y_pred_masked)
        sum_true_masked == reduce_sum(y_true_masked)
    IN  [fn |-> "custom_accuracy_metric", mask |-> mask,
         sum_pred |-> sum_pred_masked, sum_true |-> sum_true_masked,
         accuracy |-> CapAccuracy(AccuracyPercent * sum_pred_masked,
                                  sum_true_masked)]

(***************************************************************************)
(* The loss specification: a batch of labels and predictions, and the      *)
(* calls of the losses and of the metric on it.                            *)
(***************************************************************************)
Shapes ==
    {s \in (1..MaxBatch) \X (1..MaxPoints) : s[1] * s[2] <= MaxCells}

NoOut == [fn |-> "none"]

NoNet == [stage |-> "none"]

\* No network at hand: the losses are called on tensors alone.
NetIdle ==
    /\ input_points = <<>>
    /\ weights = 0
    /\ num_classes = 0
    /\ net = NoNet

NoPenalty == [stage |-> "none"]

\* No training run: nothing regularized, no epoch ended.
TrainIdle ==
    /\ kernel = <<>>
    /\ reg_loss = NoPenalty
    /\ epoch = 0
    /\ saved = {}
    /\ raised = "none"

InitLoss ==
    /\ \E s \in Shapes :
         /\ y_true \in [1..s[1] -> [1..s[2] -> Labels]]
         /\ y_pred \in [1..s[1] -> [1..s[2] -> Preds]]
    /\ out = NoOut
    /\ NetIdle
    /\ TrainIdle

\* Each call evaluates one loss, or the metric, on the batch at hand.
CanCall == out = NoOut

CallMse ==
    /\ CanCall
    /\ out' = masked_mse_loss(y_true, y_pred)
    /\ UNCHANGED <<y_true, y_pred, netVars, trainVars>>

CallMae ==
    /\ CanCall
    /\ out' = masked_mae_loss(y_true, y_pred)
    /\ UNCHANGED <<y_true, y_pred, netVars, trainVars>>

CallHuber ==
    /\ CanCall
    /\ out' = masked_huber_loss(y_true, y_pred)
    /\ UNCHANGED <<y_true, y_pred, netVars, trainVars>>

CallBce ==
    /\ CanCall
    /\ out' = masked_bce_loss(y_true, y_pred)
    /\ UNCHANGED <<y_true, y_pred, netVars, trainVars>>

CallMseBce ==
    /\ CanCall
    /\ \E w \in BceWeights : out' = masked_mse_bce_loss(y_true, y_pred, w)
    /\ UNCHANGED <<y_true, y_pred, netVars, trainVars>>

CallAccuracy ==
    /\ CanCall
    /\ out' = custom_accuracy_metric(y_true, y_pred)
    /\ UNCHANGED <<y_true, y_pred, netVars, trainVars>>

NextLoss ==
    \/ CallMse
    \/ CallMae
    \/ CallHuber
    \/ CallBce
    \/ CallMseBce
    \/ CallAccuracy

SpecLoss == InitLoss /\ [][NextLoss]_vars

(***************************************************************************)
(* The network.  One event is a sequence of points, a point a sequence of  *)
(* num_features integers.  Every hidden layer has Hidden channels (64 to   *)
(* 5120 in the code), the trained parameters are drawn from a family       *)
(* indexed by a seed, and the layers run as they do in inference: batch    *)
(* normalisation is a per-channel affine map with the moving statistics,   *)
(* computed in integers (the quotient rounded down); dropout does nothing. *)
(***************************************************************************)
Hidden == 3
MaxCloud == 2
MaxSeed == 2
MaxClasses == 1

num_features == 6
EnergyIndex == 5
PaddingType == -1

PointPool ==
    { <<1, 0, 0, 1, 2, 0>>, <<0, 1, 0, 0, 1, 0>>, <<0, 0, 1, 1, 0, 0>>,
      <<0, 1, 1, 0, -1, 0>>, <<1, 1, 0, 0, 1, 1>>,
      <<0, 0, 0, 0, 0, -1>>, <<1, 1, 1, 1, 1, -1>> }

\* Parameters of layer l under the seed w.
KernelAt(w, l, i, j) == ((w * (l + 2 * i + 3 * j) + i * j) % 3) - 1
BiasAt(w, l, j) == ((w + l + j) % 3) - 1
MeanAt(w, l, j) == ((w + 2 * l + j) % 3) - 1
StdAt(w, l, j) == 1 + ((w + l + j) % 2)
BetaAt(w, l, j) == ((w * l + j) % 3) - 1

\* The one value of a singleton.  A layer binds its input with
\* {e(x) : x \in {input}}, so that the input is computed once.
Only(S) == CHOOSE r \in S : TRUE

\* bias + sum over the first i inputs of v[i] * kernel[i][j]
RECURSIVE Affine(_, _, _, _, _)
Affine(v, w, l, j, i) ==
    IF i = 0 THEN BiasAt(w, l, j)
    ELSE v[i] * KernelAt(w, l, i, j) + Affine(v, w, l, j, i - 1)

Relu(x) == IF x > 0 THEN x ELSE 0

\* Conv1D(kernel_size=1) or Dense on one point: units outputs
Linear(v0, w, l, units) ==
    Only({[j \in 1..units |-> Affine(v, w, l, j, Len(v))] : v \in {v0}})

\* (x - moving_mean) / sqrt(moving_variance + epsilon) * gamma + beta, with
\* gamma = 1 and the quotient rounded down
BatchNormalization(v0, w, l) ==
    Only({[j \in 1..Len(v) |->
              ((v[j] - MeanAt(w, l, j)) \div StdAt(w, l, j)) + BetaAt(w, l, j)] :
            v \in {v0}})

ReluAll(v0) == Only({[j \in 1..Len(v) |-> Relu(v[j])] : v \in {v0}})

\* Conv1D(kernel_size=1, relu) on every point alike, then BatchNormalization
conv_mlp(x0, w, l, filters) ==
    Only({[n \in 1..Len(x) |->
              BatchNormalization(ReluAll(Linear(x[n], w, l, filters)), w, l)] :
            x \in {x0}})

\* Dense, BatchNormalization, relu
dense_block(v, w, l, units) ==
    ReluAll(BatchNormalization(Linear(v, w, l, units), w, l))

\* The maximum of a non-empty sequence.
MaxOf(s) == CHOOSE m \in {s[n] : n \in 1..Len(s)} : \A n \in 1..Len(s) : s[n] <= m

\* The first point's features in place of the maximum over the points.
FirstPointPooling(x0) == Only({x[1] : x \in {x0}})

\* The maximum over the points, channel by channel.
GlobalMaxPooling1D(x0) ==
    Only({[j \in 1..Len(x[1]) |-> MaxOf([n \in 1..Len(x) |-> x[n][j]])] :
            x \in {x0}})

\* tf.reshape(x, (-1, size, size)) of one event
Reshape(f0, size) ==
    Only({[i \in 1..size |-> [j \in 1..size |-> f[(i - 1) * size + j]]] :
            f \in {f0}})

\* The T-Net whose layers are l0 .. l0 + 5.
TNet(x, w, l0, size) ==
    Reshape(
        dense_block(
            dense_block(
                dense_block(
                    GlobalMaxPooling1D(
                        conv_mlp(
                            conv_mlp(conv_mlp(x, w, l0, Hidden),
                                     w, l0 + 1, Hidden),
                            w, l0 + 2, Hidden)),
                    w, l0 + 3, Hidden),
                w, l0 + 4, Hidden),
            w, l0 + 5, size * size),
        size)

RECURSIVE DotSum(_, _, _, _)
DotSum(v, t, j, i) ==
    IF i = 0 THEN 0 ELSE v[i] * t[i][j] + DotSum(v, t, j, i - 1)

\* Dot(axes=(2, 1)): every point times the transform
Dot(x0, t0) ==
    Only({[n \in 1..Len(p[1]) |->
              [j \in 1..Len(p[2][1]) |-> DotSum(p[1][n], p[2], j, Len(p[2]))]] :
            p \in {<<x0, t0>>}})

\* sigmoid, in thousandths, of an integer
Sigmoid(x) ==
    IF x >= 8 THEN 1000
    ELSE IF x <= -8 THEN 0
    ELSE <<1, 2, 7, 18, 47, 119, 269, 500, 731, 881, 953, 982, 993, 998,
           999>>[x + 8]

\* The pre-activation score itself, in thousandths.
NoActivation(x) == 1000 * x

\* Activation("sigmoid")
Activation(x) == Sigmoid(x)

\* inputs * mask, the mask 0 on the points whose last value is -1
CustomMaskingLayer(inputs) ==
    [n \in 1..Len(inputs) |->
        LET mask == IF inputs[n][Len(inputs[n])] # PaddingType THEN 1 ELSE 0
        IN  [i \in 1..Len(inputs[n]) |-> inputs[n][i] * mask]]

\* x = conv_mlp(conv_mlp(Dot([input_points, input_tnet]), 64), 64)
PointFeatures(pts, w) ==
    conv_mlp(conv_mlp(Dot(pts, TNet(pts, w, 1, num_features)), w, 7, Hidden),
             w, 8, Hidden)

\* The per-point features that the global max-reduction reads.
GlobalInput(point_features, w) ==
    conv_mlp(
        conv_mlp(
            conv_mlp(Dot(point_features,
                         TNet(point_features, w, 9, Len(point_features[1]))),
                     w, 15, Hidden),
            w, 16, Hidden),
        w, 17, Hidden)

\* expand_dims and tile: the global feature at every one of the points
Tile(global_feature, num_points) ==
    [n \in 1..num_points |-> global_feature]

Concatenate(a, b) == [n \in 1..Len(a) |-> a[n] \o b[n]]

\* The segmentation head on the concatenated features c0.
SegmentationHead(pts, c0, w, nc) ==
    Only({[n \in 1..Len(pts) |->
              [k \in 1..nc |-> Affine(c3[n], w, 21, k, Len(c3[n]))]] :
            c3 \in {conv_mlp(conv_mlp(conv_mlp(c0, w, 18, Hidden),
                                      w, 19, Hidden),
                             w, 20, Hidden)}})

ModelOutput(pts, x6, global_feature, global_feature_expanded, pre_sigmoid) ==
    LET energy == [n \in 1..Len(pts) |-> pts[n][EnergyIndex]]
        score ==
            [n \in 1..Len(pts) |->
                [k \in 1..Len(pre_sigmoid[n]) |->
                    Activation(pre_sigmoid[n][k])]]
    IN  [stage |-> "predicted", tnet_input |-> pts, features |-> x6,
         global_feature |-> global_feature,
         global_feature_expanded |-> global_feature_expanded,
         pre_sigmoid |-> pre_sigmoid, score |-> score,
         output |->
             [n \in 1..Len(pts) |->
                 [k \in 1..Len(pre_sigmoid[n]) |->
                     Activation(pre_sigmoid[n][k]) * energy[n]]]]

PointNetSegmentation(pts0, w, nc) ==
    Only({
      Only({
        Only({
          Only({
            Only({
              Only({
                ModelOutput(pts, x6, global_feature, expanded, pre_sigmoid) :
                pre_sigmoid \in
                    {SegmentationHead(
                         pts, Concatenate(point_features, expanded), w, nc)}}) :
              expanded \in {Tile(global_feature, Len(pts))}}) :
            global_feature \in {GlobalMaxPooling1D(x6)}}) :
          x6 \in {GlobalInput(point_features, w)}}) :
        point_features \in {PointFeatures(pts, w)}}) :
      pts \in {pts0}})

(***************************************************************************)
(* The network specification: an event, trained parameters, and the calls  *)
(* of the model and of the masking layer on the event.                     *)
(***************************************************************************)
LossIdle ==
    /\ y_true = <<>>
    /\ y_pred = <<>>
    /\ out = NoOut

InitNet ==
    /\ \E n \in 1..MaxCloud : input_points \in [1..n -> PointPool]
    /\ weights \in 1..MaxSeed
    /\ num_classes \in 1..MaxClasses
    /\ net = NoNet
    /\ LossIdle
    /\ TrainIdle

Predict ==
    /\ net' = PointNetSegmentation(input_points, weights, num_classes)
    /\ UNCHANGED <<input_points, weights, num_classes, lossVars, trainVars>>

CallMaskingLayer ==
    /\ net' = [stage |-> "masked", output |-> CustomMaskingLayer(input_points)]
    /\ UNCHANGED <<input_points, weights, num_classes, lossVars, trainVars>>

NextNet ==
    \/ Predict
    \/ CallMaskingLayer

SpecNet == InitNet /\ [][NextNet]_vars

(***************************************************************************)
(* Training.  The weights handed to the regularizer are a row-major        *)
(* sequence of integers that reshapes into blocks of BlockSize x BlockSize *)
(* (64 x 64 in the code); the penalty is in units of l2, thousandths.      *)
(***************************************************************************)
BlockSize == 2
MaxBlocks == 2
MaxEpoch == 2

l2 == 1

\* tf.eye(num_features)
eye(nf) == [r \in 1..nf |-> [c \in 1..nf |-> IF r = c THEN 1 ELSE 0]]

\* The blocks that the weights are made of: the identity, its negation, the
\* exchange of the first two rows, twice the identity, zero, and ones in the
\* first row.
BlockPool(nf) ==
    { eye(nf),
      [r \in 1..nf |-> [c \in 1..nf |-> IF r = c THEN -1 ELSE 0]],
      [r \in 1..nf |->
          [c \in 1..nf |->
              IF (r <= 2 /\ c <= 2 /\ r # c) \/ (r > 2 /\ r = c)
              THEN 1 ELSE 0]],
      [r \in 1..nf |-> [c \in 1..nf |-> IF r = c THEN 2 ELSE 0]],
      [r \in 1..nf |-> [c \in 1..nf |-> 0]],
      [r \in 1..nf |-> [c \in 1..nf |-> IF r = 1 THEN 1 ELSE 0]] }

\* The weights whose blocks, in order, are those given.
FlatBlocks(blocks) == Flatten([i \in 1..Len(blocks) |-> Flatten(blocks[i])])

Kernels ==
    {FlatBlocks(b) :
        b \in UNION {[1..n -> BlockPool(BlockSize)] : n \in 1..MaxBlocks}}

\* tf.reshape(inputs, (-1, nf, nf)) of a row-major sequence
ReshapeBlocks(inputs, nf) ==
    [i \in 1..(Len(inputs) \div (nf * nf)) |->
        [j \in 1..nf |->
            [m \in 1..nf |-> inputs[((i - 1) * nf + (j - 1)) * nf + m]]]]

RECURSIVE RowDot(_, _, _)
RowDot(a, b, m) == IF m = 0 THEN 0 ELSE a[m] * b[m] + RowDot(a, b, m - 1)

\* tf.tensordot(A, A, axes=(2, 2)), row-major: the entry [i, j, k, l] is the
\* sum over m of A[i, j, m] * A[k, l, m], for every pair of blocks i and k
tensordot(A, nf) ==
    [f \in 1..(Len(A) * nf * Len(A) * nf) |->
        LET l == (f - 1) % nf
            k == ((f - 1) \div nf) % Len(A)
            j == ((f - 1) \div (nf * Len(A))) % nf
            i == (f - 1) \div (nf * Len(A) * nf)
        IN  RowDot(A[i + 1][j + 1], A[k + 1][l + 1], nf)]

\* tf.reduce_sum(l2 * tf.square(AAT - I)), I broadcast over the blocks
RECURSIVE SumSquaredDifference(_, _, _)
SumSquaredDifference(AAT, I, b) ==
    IF b = 0 THEN 0
    ELSE reduce_sum(Flatten(
             [r \in 1..Len(I) |->
                 [c \in 1..Len(I) |->
                     l2 * (AAT[b][r][c] - I[r][c]) * (AAT[b][r][c] - I[r][c])]]))
         + SumSquaredDifference(AAT, I, b - 1)

\* OrthogonalRegularizer(num_features).__call__(inputs)
OrthogonalRegularizer(inputs, nf) ==
    LET A == ReshapeBlocks(inputs, nf)
        AAT == ReshapeBlocks(tensordot(A, nf), nf)
    IN  SumSquaredDifference(AAT, eye(nf), Len(AAT))

\* "JetPointNet_{epoch}.hd5": text, one replacement field, text
FileNameTemplate ==
    [prefix |-> "JetPointNet_", field |-> [kind |-> "name", name |-> "epoch"],
     suffix |-> ".hd5"]

NoKwargs == <<>>

\* str.format(*args, **kwargs) of a template with one replacement field: a
\* field with a name is looked up among the keyword arguments, a field with
\* a number among the positional ones; a missing one raises.
Format(template, args, kwargs) ==
    IF template.field.kind = "name"
    THEN IF template.field.name \in DOMAIN kwargs
         THEN [raised |-> "none",
               value |-> <<template.prefix, kwargs[template.field.name],
                           template.suffix>>]
         ELSE [raised |-> "KeyError"]
    ELSE IF template.field.index + 1 \in DOMAIN args
         THEN [raised |-> "none",
               value |-> <<template.prefix, args[template.field.index + 1],
                           template.suffix>>]
         ELSE [raised |-> "IndexError"]

InitTrain ==
    /\ kernel \in Kernels
    /\ reg_loss = NoPenalty
    /\ epoch = 0
    /\ saved = {}
    /\ raised = "none"
    /\ LossIdle
    /\ NetIdle

\* The regularizer of the feature T-Net on the weights at hand.
CallRegularizer ==
    /\ raised = "none"
    /\ reg_loss = NoPenalty
    /\ reg_loss' = [stage |-> "computed",
                    penalty |-> OrthogonalRegularizer(kernel, BlockSize)]
    /\ UNCHANGED <<kernel, epoch, saved, raised, lossVars, netVars>>

\* SaveModel.on_epoch_end(epoch): the file name is formatted, then the model
\* saved under it; an exception of the callback ends training.
on_epoch_end ==
    /\ raised = "none"
    /\ epoch <= MaxEpoch
    /\ LET name == Format(FileNameTemplate, <<epoch>>, NoKwargs)
       IN  IF name.raised # "none"
           THEN /\ raised' = name.raised
                /\ UNCHANGED <<saved, epoch>>
           ELSE /\ saved' = saved \cup {name.value}
                /\ epoch' = epoch + 1
                /\ UNCHANGED raised
    /\ UNCHANGED <<kernel, reg_loss, lossVars, netVars>>

NextTrain ==
    \/ CallRegularizer
    \/ on_epoch_end

SpecTrain == InitTrain /\ [][NextTrain]_vars

(***************************************************************************)
(* Properties of training.                                                 *)
(***************************************************************************)
\* The product of a block with its own transpose.
OwnProduct(B) ==
    [r \in 1..Len(B) |-> [c \in 1..Len(B) |-> RowDot(B[r], B[c], Len(B))]]

IsOrthogonal(B) == OwnProduct(B) = eye(Len(B))

\* l2 times the sum over the blocks A_i of the squared entries of
\* A_i * transpose(A_i) - I
BlockwisePenalty(A) ==
    SumSquaredDifference([i \in 1..Len(A) |-> OwnProduct(A[i])],
                         eye(BlockSize), Len(A))

\* C9: the regularizer returns l2 times the sum over the blocks A_i of the
\* weights of the squared entries of A_i * transpose(A_i) - I, so the penalty
\* is 0 exactly when every block is orthogonal.
C9_BlockwisePenalty ==
    reg_loss.stage = "computed" =>
        LET A == ReshapeBlocks(kernel, BlockSize)
        IN  /\ reg_loss.penalty = BlockwisePenalty(A)
            /\ reg_loss.penalty = 0 <=> \A i \in 1..Len(A) : IsOrthogonal(A[i])

\* C9 for weights of one block only.
C9_OneBlock ==
    (reg_loss.stage = "computed" /\ Len(kernel) = BlockSize * BlockSize) =>
        LET A == ReshapeBlocks(kernel, BlockSize)
        IN  /\ reg_loss.penalty = BlockwisePenalty(A)
            /\ reg_loss.penalty = 0 <=> IsOrthogonal(A[1])

\* The name "JetPointNet_<epoch>.hd5" of epoch e.
SavedName(e) == <<"JetPointNet_", e, ".hd5">>

\* C10: no call of on_epoch_end raises, and once an epoch has ended there is
\* one saved file for each of the epochs so far, under the name of the epoch.
C10_EveryEpochSaved ==
    /\ raised = "none"
    /\ saved = {SavedName(e) : e \in 0..(epoch - 1)}
    /\ Cardinality(saved) = epoch

(***************************************************************************)
(* Properties of the network.                                              *)
(***************************************************************************)
Reorderings(n) ==
    {f \in [1..n -> 1..n] : \A i, j \in 1..n : f[i] = f[j] => i = j}

Permute(x, f) == [n \in 1..Len(x) |-> x[f[n]]]

\* The global feature of an event, as the model computes it.
GlobalFeatureOf(pts, w) ==
    GlobalMaxPooling1D(GlobalInput(PointFeatures(pts, w), w))

\* C4: the aggregated global feature is the same for every reordering of the
\* points of the event, and that one vector stands at every one of the
\* num_points positions of the broadcast.
C4_PermutationInvariant ==
    net.stage = "predicted" =>
        /\ \A f \in Reorderings(Len(input_points)) :
              GlobalFeatureOf(Permute(input_points, f), weights)
                  = net.global_feature
        /\ Len(net.global_feature_expanded) = Len(input_points)
        /\ \A n \in 1..Len(input_points) :
              net.global_feature_expanded[n] = net.global_feature

\* A prediction on two points whose features before the reduction differ,
\* the maximum not being the first point's in every channel.
C4_Witness ==
    /\ net.stage = "predicted"
    /\ Len(input_points) >= 2
    /\ net.features[1] # net.features[2]
    /\ net.global_feature # net.features[1]

IsPadding(p) == p[Len(p)] = PaddingType

\* The events that differ from pts only in the features of padding points.
PaddingVariants(pts) ==
    {q \in [1..Len(pts) -> PointPool] :
        \A n \in 1..Len(pts) :
            IF IsPadding(pts[n]) THEN IsPadding(q[n]) ELSE q[n] = pts[n]}

\* C5: the model masks out the padding points: the T-Nets and the layers
\* after them read the input with the features of every type -1 point
\* zeroed, and two events that differ only in the features of type -1 points
\* get the same prediction at every other point.
C5_PaddingMaskedOut ==
    net.stage = "predicted" =>
        /\ net.tnet_input = CustomMaskingLayer(input_points)
        /\ \A q \in PaddingVariants(input_points) :
              \A r \in {PointNetSegmentation(q, weights, num_classes)} :
                  \A n \in 1..Len(input_points) :
                      ~IsPadding(input_points[n]) =>
                          r.output[n] = net.output[n]

\* The second half of C5 alone: the predictions of the other points do not
\* depend on the features of the padding points.
C5_NoInterference ==
    net.stage = "predicted" =>
        \A q \in PaddingVariants(input_points) :
            \A r \in {PointNetSegmentation(q, weights, num_classes)} :
                \A n \in 1..Len(input_points) :
                    ~IsPadding(input_points[n]) =>
                        r.output[n] = net.output[n]

LossFns ==
    {"masked_mse_loss", "masked_mae_loss", "masked_huber_loss",
     "masked_bce_loss", "masked_mse_bce_loss"}

RangeFns == {"masked_mse_loss", "masked_mae_loss", "masked_mse_bce_loss"}

BatchFns == {"masked_huber_loss", "masked_bce_loss"}

Cells(t) == {c \in (1..Len(t)) \X (1..Len(t[1])) : TRUE}

ValidCells(yt) == {c \in Cells(yt) : yt[c[1]][c[2]] # SentinelLabel}

\* The sum of the entries of tensor v at the cells given.
RECURSIVE SumCells(_, _)
SumCells(v, cells) ==
    IF cells = {} THEN 0
    ELSE LET c == CHOOSE x \in cells : TRUE
         IN  v[c[1]][c[2]] + SumCells(v, cells \ {c})

\* The per-point error of term k of loss fn.
PointError(fn, k, t, p) ==
    CASE fn = "masked_mse_loss" -> SquaredError(t, p)
      [] fn = "masked_mae_loss" -> AbsoluteError(t, p)
      [] fn = "masked_huber_loss" -> HuberError(t, p)
      [] fn = "masked_bce_loss" -> BinaryCrossentropy(t, p)
      [] fn = "masked_mse_bce_loss" /\ k = 1 -> SquaredError(t, p)
      [] fn = "masked_mse_bce_loss" /\ k = 2 ->
            IF t = 0 THEN ClippedZeroBce(p) ELSE 0

PointErrors(fn, k) ==
    [i \in 1..Len(y_true) |->
        [j \in 1..Len(y_true[i]) |->
            PointError(fn, k, y_true[i][j], y_pred[i][j])]]

TermWeight(o, k) ==
    IF o.fn = "masked_mse_bce_loss" /\ k = 2 THEN o.bce_weight ELSE 1

\* C1: in every masked loss the mask is 0 at a point labelled -1.0 and 1 at
\* every other point, the masked per-point error of a sentinel point is 0, and
\* the error sum is the sum of the per-point errors over the non-sentinel
\* points only.
C1_SentinelAddsNothing ==
    out.fn \in LossFns =>
        /\ \A c \in Cells(y_true) :
              out.mask[c[1]][c[2]] =
                  IF y_true[c[1]][c[2]] = SentinelLabel THEN 0 ELSE 1
        /\ \A k \in 1..Len(out.terms) :
              /\ \A c \in Cells(y_true) :
                    y_true[c[1]][c[2]] = SentinelLabel
                        => out.masked[k][c[1]][c[2]] = 0
              /\ out.terms[k].num =
                    TermWeight(out, k)
                        * SumCells(PointErrors(out.fn, k), ValidCells(y_true))

\* A sentinel point with a non-zero base error has been through a loss.
C1_Witness ==
    /\ out.fn \in LossFns
    /\ \E c \in Cells(y_true) :
          /\ y_true[c[1]][c[2]] = SentinelLabel
          /\ y_pred[c[1]][c[2]] # SentinelLabel
          /\ PointError(out.fn, 1, y_true[c[1]][c[2]], y_pred[c[1]][c[2]]) # 0
    /\ ValidCells(y_true) # {}
    /\ out.terms[1].num # 0

\* The divisors of a returned value.
Denominators(o) ==
    IF o.fn = "custom_accuracy_metric" THEN <<o.sum_true>>
    ELSE [k \in 1..Len(o.terms) |->
             <<o.terms[k].range, o.terms[k].rangepow, o.terms[k].count,
               o.terms[k].batch>>]

Eval(o, yt, yp) ==
    CASE o.fn = "masked_mse_loss" -> masked_mse_loss(yt, yp)
      [] o.fn = "masked_mae_loss" -> masked_mae_loss(yt, yp)
      [] o.fn = "masked_huber_loss" -> masked_huber_loss(yt, yp)
      [] o.fn = "masked_bce_loss" -> masked_bce_loss(yt, yp)
      [] o.fn = "masked_mse_bce_loss" ->
            masked_mse_bce_loss(yt, yp, o.bce_weight)
      [] o.fn = "custom_accuracy_metric" -> custom_accuracy_metric(yt, yp)

InsertAt(s, k, v) == SubSeq(s, 1, k - 1) \o <<v>> \o SubSeq(s, k, Len(s))

\* One more point in every event, at position k.
PadPoints(t, k, v) == [i \in 1..Len(t) |-> InsertAt(t[i], k, v)]

\* One more event, all of whose points carry v.
PadEvent(t, v) == Append(t, [j \in 1..Len(t[1]) |-> v])

\* The prediction of one point changed.
SetPoint(t, c, v) == [t EXCEPT ![c[1]][c[2]] = v]

ValidLabels(yt) == boolean_mask(Flatten(yt), Flatten(NotSentinelMask(yt)))

\* max - min over a non-empty set of labels
SetRange(S) ==
    (CHOOSE x \in S : \A y \in S : y <= x)
        - (CHOOSE x \in S : \A y \in S : x <= y)

ValidValues(yt) == {yt[c[1]][c[2]] : c \in ValidCells(yt)}

\* The dynamic range is max - min over the non-sentinel labels, floored at
\* 1e-5.
RangeOverValid(o) ==
    \A k \in 1..Len(o.terms) :
        o.terms[k].rangepow > 0 =>
            LET V == ValidValues(y_true)
            IN  o.terms[k].range =
                    IF V = {} \/ SetRange(V) = 0
                    THEN [n |-> 1, d |-> RangeFloorInv]
                    ELSE [n |-> SetRange(V), d |-> 1]

\* Sentinel points added inside the events, or the prediction of a sentinel
\* point changed, leave every divisor as it was.
SamePaddedDenominators(o) ==
    /\ \A k \in 1..(Len(y_true[1]) + 1) :
          Denominators(Eval(o, PadPoints(y_true, k, SentinelLabel),
                            PadPoints(y_pred, k, 0))) = Denominators(o)
    /\ \A c \in Cells(y_true) \ ValidCells(y_true) :
          \A v \in Preds \ {y_pred[c[1]][c[2]]} :
              Denominators(Eval(o, y_true, SetPoint(y_pred, c, v)))
                  = Denominators(o)

AtMostCap(a) ==
    IF a.capped THEN a.num <= AccuracyCap * a.s_true
    ELSE IF a.s_true >= 0 THEN a.num <= AccuracyCap * a.s_true
         ELSE a.num > AccuracyCap * a.s_true

\* C3: custom_accuracy_metric returns min(100 * S_pred / (S_true + 1e-8),
\* 1000), the sums taken over the points whose label is not -1.0, and the
\* returned value is at most 1000.
C3_AccuracyCapped ==
    out.fn = "custom_accuracy_metric" =>
        LET sp == SumCells(y_pred, ValidCells(y_true))
            st == SumCells(y_true, ValidCells(y_true))
            ratioAbove ==
                IF st >= 0 THEN AccuracyPercent * sp > AccuracyCap * st
                ELSE AccuracyPercent * sp <= AccuracyCap * st
        IN  /\ out.sum_pred = sp
            /\ out.sum_true = st
            /\ out.accuracy =
                  IF ratioAbove
                  THEN [capped |-> TRUE, num |-> AccuracyCap, s_true |-> 1,
                        eps |-> FALSE]
                  ELSE [capped |-> FALSE, num |-> AccuracyPercent * sp,
                        s_true |-> st, eps |-> TRUE]
            /\ AtMostCap(out.accuracy)

\* The ratio was above 1000 and a sentinel point carried a prediction.
C3_Witness ==
    /\ out.fn = "custom_accuracy_metric"
    /\ out.accuracy.capped
    /\ \E c \in Cells(y_true) \ ValidCells(y_true) : y_pred[c[1]][c[2]] > 0

\* C7: masked_mse_bce_loss returns masked_mse_loss of the same inputs plus a
\* penalty: bce_weight times the cross-entropy (target 0, prediction clipped
\* to [0.001, 0.999]) summed over the points labelled exactly 0.0, divided by
\* the count of non-sentinel labels; with bce_weight = 0 the penalty is 0.
C7_MsePlusZeroBce ==
    out.fn = "masked_mse_bce_loss" =>
        LET zeros == {c \in Cells(y_true) : y_true[c[1]][c[2]] = 0}
        IN  /\ Len(out.terms) = 2
            /\ out.terms[1] = masked_mse_loss(y_true, y_pred).terms[1]
            /\ out.terms[2] =
                  Term(out.bce_weight
                           * SumCells(clipped_zero_crossentropy(y_pred),
                                      zeros),
                       1000, NoRange, 0, Cardinality(ValidCells(y_true)),
                       1, 1)
            /\ out.bce_weight = 0 => out.terms[2].num = 0

\* A weighted call on labels of all three kinds: zero, non-zero, sentinel.
C7_Witness ==
    /\ out.fn = "masked_mse_bce_loss"
    /\ out.bce_weight > 0
    /\ out.terms[2].num > 0
    /\ {SentinelLabel, 0, 1} \subseteq
          {y_true[c[1]][c[2]] : c \in Cells(y_true)}

\* C8: every masked loss divides by non-zero divisors: the dynamic range is
\* positive and the count of non-sentinel labels is at least 1, also for a
\* batch in which every label is the sentinel.
C8_NonZeroDivisors ==
    out.fn \in LossFns =>
        \A k \in 1..Len(out.terms) :
            /\ out.terms[k].range.n > 0
            /\ out.terms[k].batch >= 1
            /\ out.terms[k].count >= 1

====
